---- MODULE Spec2Model ----
(***************************************************************************)
(* Model of vpn-route-gen: src/main.rs (gen_wg_routes, net_from_ip),       *)
(* src/dns.rs (domain_from_host, nameservers_from_host,                    *)
(* resolve_host_multiple, hostname_is_ip, discard_port) and src/host.rs    *)
(* (Host::from_proc_net_tcp, Host::contains_dst, parse_ip_port).           *)
(*                                                                         *)
(* A Rust string is a sequence of one-character strings, so that split,    *)
(* join, parse and to_string are computed character by character.          *)
(* Option<T> is a sequence of length 0 (None) or 1 (Some).                 *)
(* Result<T, String> is [ok |-> TRUE, val |-> v, err |-> ""] or            *)
(* [ok |-> FALSE, val |-> {}, err |-> msg].                                *)
(***************************************************************************)
EXTENDS Integers, Sequences, FiniteSets, TLC

\* ------------------------------------------------------------ bounds
\* Largest number of hostnames the HAR files deliver in one run.
MaxHosts == 2
\* Longest hostname string given to domain_from_host in SpecDomain.
MaxLen == 5
\* Largest number of resolved IPs handed to the aggregation in SpecNet.
MaxIps == 2

\* ------------------------------------------------------- Rust std helpers
Ok(v) == [ok |-> TRUE, val |-> v, err |-> ""]
Err(e) == [ok |-> FALSE, val |-> {}, err |-> e]

Reverse(s) == [i \in 1..Len(s) |-> s[Len(s) + 1 - i]]
Take(s, n) == SubSeq(s, 1, IF n < Len(s) THEN n ELSE Len(s))
Skip(s, n) == SubSeq(s, n + 1, Len(s))
Range(s) == {s[i] : i \in 1..Len(s)}

\* str::split(sep): the pieces between occurrences of sep; "" gives [""].
RECURSIVE Split(_, _)
Split(s, sep) ==
    IF s = <<>> THEN << <<>> >>
    ELSE LET rest == Split(Tail(s), sep) IN
         IF Head(s) = sep THEN << <<>> >> \o rest
         ELSE << <<Head(s)>> \o Head(rest) >> \o Tail(rest)

\* [&str]::join(sep); sep is a string
RECURSIVE Join(_, _)
Join(parts, sep) ==
    IF parts = <<>> THEN <<>>
    ELSE IF Len(parts) = 1 THEN parts[1]
    ELSE parts[1] \o sep \o Join(Tail(parts), sep)

\* str::trim_end_matches(c)
RECURSIVE TrimEndMatches(_, _)
TrimEndMatches(s, c) ==
    IF s # <<>> /\ s[Len(s)] = c THEN TrimEndMatches(SubSeq(s, 1, Len(s) - 1), c)
    ELSE s

DecDigits == <<"0", "1", "2", "3", "4", "5", "6", "7", "8", "9">>
HexDigits == DecDigits \o <<"A", "B", "C", "D", "E", "F">>
DigitVal(digits, c) == (CHOOSE i \in 1..Len(digits) : digits[i] = c) - 1

\* u8/u16 parsed from digits in the given radix; empty Option when not a number
\* or above max. (u8::from_str_radix, u8::from_str)
RECURSIVE RadixVal(_, _)
RadixVal(s, digits) ==
    IF s = <<>> THEN 0
    ELSE RadixVal(SubSeq(s, 1, Len(s) - 1), digits) * Len(digits)
         + DigitVal(digits, s[Len(s)])
ParseNum(s, digits, max) ==
    IF s = <<>> \/ Len(s) > 4 \/ \E i \in 1..Len(s) : s[i] \notin Range(digits) THEN <<>>
    ELSE IF RadixVal(s, digits) > max THEN <<>>
    ELSE << RadixVal(s, digits) >>

\* u8::to_string
RECURSIVE DecString(_)
DecString(n) ==
    IF n < 10 THEN << DecDigits[n + 1] >>
    ELSE DecString(n \div 10) \o << DecDigits[(n % 10) + 1] >>

\* <Ipv4Addr as FromStr>: four decimal octets 0..255 separated by '.', at most
\* three digits each and no leading zero; the result is the octet tuple.
ParseOctet(s) ==
    IF Len(s) > 3 \/ (Len(s) > 1 /\ s[1] = "0") THEN <<>>
    ELSE ParseNum(s, DecDigits, 255)
ParseIpv4(s) ==
    LET parts == Split(s, ".") IN
    IF Len(parts) # 4 \/ \E i \in 1..4 : ParseOctet(parts[i]) = <<>> THEN <<>>
    ELSE << [i \in 1..4 |-> ParseOctet(parts[i])[1]] >>

\* Ipv4Addr::to_string
Ipv4ToString(o) == Join([i \in 1..4 |-> DecString(o[i])], <<".">>)

\* Ipv4Addr::is_loopback / is_broadcast / is_private
is_loopback(o) == o[1] = 127
is_broadcast(o) == o = <<255, 255, 255, 255>>
is_private(o) ==
    \/ o[1] = 10
    \/ o[1] = 172 /\ o[2] \div 16 = 1
    \/ o[1] = 192 /\ o[2] = 168

\* ------------------------------------------------------------ src/dns.rs
\* hostname_is_ip
hostname_is_ip(s) == ParseIpv4(s)

\* discard_port: split_once(':') keeps what precedes the first ':'.
discard_port(s) ==
    IF ":" \in Range(s) THEN Head(Split(s, ":")) ELSE s

\* A mutation of domain_from_host: the empty-label test is left out.
domain_from_host_noempty(h) ==
    LET parts == Reverse(Take(Reverse(Split(h, ".")), 2)) IN
    IF Len(parts) < 2 THEN Err("too short hostname")
    ELSE Ok(Join(parts, <<".">>))

\* domain_from_host
domain_from_host(h) ==
    LET parts == Reverse(Split(h, ".")) IN
    IF \E i \in 1..Len(parts) : parts[i] = <<>>
    THEN Err("too short component of hostname")
    ELSE LET parts2 == Reverse(Take(parts, 2)) IN
         IF Len(parts2) < 2 THEN Err("too short hostname")
         ELSE Ok(Join(parts2, <<".">>))

\* ------------------------------------------------------------ src/main.rs
\* A mutation of net_from_ip: only the last octet is dropped.
net_from_ip_skip1(ip) ==
    LET net_rev == Skip(Reverse(Split(ip, ".")), 1) IN
    Join(Reverse(net_rev) \o << <<"0">>, <<"0">> >>, <<".">>) \o <<"/", "1", "6">>

\* net_from_ip
net_from_ip(ip) ==
    LET net_rev == Skip(Reverse(Split(ip, ".")), 2) IN
    Join(Reverse(net_rev) \o << <<"0">>, <<"0">> >>, <<".">>) \o <<"/", "1", "6">>

\* ----------------------------------------------------------- src/host.rs
\* std::net::IpAddr as the resolver library hands it out: an IPv4 address
\* (its octets) or an IPv6 address (its text).
V4(o) == [v6 |-> FALSE, o |-> o, text |-> <<>>]
V6(t) == [v6 |-> TRUE, o |-> <<>>, text |-> t]
\* IpAddr::to_string
IpToString(a) == IF a.v6 THEN a.text ELSE Ipv4ToString(a.o)

\* from_hex2
from_hex2(s) ==
    LET n == ParseNum(s, HexDigits, 255) IN
    IF n = <<>> THEN Err("could not convert from hex string") ELSE Ok(n[1])

\* parse_ip_port: "DDCCBBAA:PPPP" (hex, address little-endian) gives
\* <<octets of A.B.C.D, port>>.
parse_ip_port(s) ==
    LET s_it == Split(s, ":") IN
    IF Len(s_it) < 2 THEN Err("no port in 'ip:port' pair to parse")
    ELSE LET s_ip == s_it[1]
             s_port == s_it[2] IN
         IF Len(s_ip) # 8 \/ Len(s_port) # 4
         THEN Err("too short ip:port pair to parse")
         ELSE LET a == from_hex2(SubSeq(s_ip, 1, 2))
                  b == from_hex2(SubSeq(s_ip, 3, 4))
                  c == from_hex2(SubSeq(s_ip, 5, 6))
                  d == from_hex2(SubSeq(s_ip, 7, 8))
                  x == from_hex2(SubSeq(s_port, 1, 2))
                  y == from_hex2(SubSeq(s_port, 3, 4))
                  bad == SelectSeq(<<a, b, c, d, x, y>>, LAMBDA r : ~r.ok) IN
              IF bad # <<>> THEN Err(bad[1].err)
              ELSE Ok(<< <<d.val, c.val, b.val, a.val>>, x.val * 256 + y.val >>)

\* str::trim
RECURSIVE TrimStart(_)
TrimStart(s) == IF s # <<>> /\ Head(s) = " " THEN TrimStart(Tail(s)) ELSE s
Trim(s) == TrimEndMatches(TrimStart(s), " ")

\* The try_fold of from_proc_net_tcp over the lines after the header.
RECURSIVE parse_conn_lines(_, _)
parse_conn_lines(lines, acc) ==
    IF lines = <<>> THEN Ok(acc)
    ELSE LET fields == Take(Split(Trim(Head(lines)), " "), 3) IN
         IF Len(fields) < 3 THEN Err("not enough fields to parse 'ip:port'")
         ELSE LET src == parse_ip_port(fields[2])
                  dst == parse_ip_port(fields[3]) IN
              IF ~src.ok THEN Err(src.err)
              ELSE IF ~dst.ok THEN Err(dst.err)
              ELSE parse_conn_lines(Tail(lines),
                       Append(acc, [src_ip |-> src.val[1], src_port |-> src.val[2],
                                    dst_ip |-> dst.val[1], dst_port |-> dst.val[2]]))

\* One protocol's table: the read of /proc/net/<proto> (a Result holding the
\* file's lines) turned into connections.
proc_conns(file) ==
    IF ~file.ok THEN Err("could not read /proc/net/") ELSE parse_conn_lines(Skip(file.val, 1), <<>>)

\* Host::from_proc_net_tcp: both tables are read, the TCP error is reported first.
from_proc_net_tcp(tcp_file, udp_file) ==
    LET tcp == proc_conns(tcp_file)
        udp == proc_conns(udp_file) IN
    IF ~tcp.ok THEN Err(tcp.err)
    ELSE IF ~udp.ok THEN Err(udp.err)
    ELSE Ok([tcp_conns |-> tcp.val, udp_conns |-> udp.val])

\* <ipnetwork::Ipv4Network as FromStr>: "a.b.c.d/p" with p <= 32.
ParseIpv4Network(s) ==
    LET parts == Split(s, "/") IN
    IF Len(parts) # 2 THEN <<>>
    ELSE LET addr == ParseIpv4(parts[1])
             prefix == ParseNum(parts[2], DecDigits, 32) IN
         IF addr = <<>> \/ prefix = <<>> THEN <<>>
         ELSE << [addr |-> addr[1], prefix |-> prefix[1]] >>

\* Ipv4Network::contains: the address and the network agree on the first
\* `prefix` bits. The 32 bits are compared as two 16-bit halves.
Pow2(n) == IF n = 0 THEN 1 ELSE IF n = 1 THEN 2 ELSE IF n = 2 THEN 4 ELSE IF n = 3 THEN 8
    ELSE IF n = 4 THEN 16 ELSE IF n = 5 THEN 32 ELSE IF n = 6 THEN 64 ELSE IF n = 7 THEN 128
    ELSE IF n = 8 THEN 256 ELSE IF n = 9 THEN 512 ELSE IF n = 10 THEN 1024
    ELSE IF n = 11 THEN 2048 ELSE IF n = 12 THEN 4096 ELSE IF n = 13 THEN 8192
    ELSE IF n = 14 THEN 16384 ELSE IF n = 15 THEN 32768 ELSE 65536
Hi16(o) == o[1] * 256 + o[2]
Lo16(o) == o[3] * 256 + o[4]
NetContains(net, ip) ==
    IF net.prefix <= 16
    THEN Hi16(ip) \div Pow2(16 - net.prefix) = Hi16(net.addr) \div Pow2(16 - net.prefix)
    ELSE /\ Hi16(ip) = Hi16(net.addr)
         /\ Lo16(ip) \div Pow2(32 - net.prefix) = Lo16(net.addr) \div Pow2(32 - net.prefix)

\* A mutation of contains_dst: the UDP table is not scanned.
contains_dst_tcp_only(host_util, net_str) ==
    LET net == ParseIpv4Network(net_str)[1]
        hit == SelectSeq(host_util.tcp_conns, LAMBDA c : NetContains(net, c.dst_ip)) IN
    IF hit = <<>> THEN <<>> ELSE << <<Ipv4ToString(hit[1].dst_ip), hit[1].dst_port>> >>

\* Host::contains_dst, for a net_str that parses (the caller panics otherwise):
\* the first connection, TCP table first, whose destination is in the network.
contains_dst(host_util, net_str) ==
    LET net == ParseIpv4Network(net_str)[1]
        hit == SelectSeq(host_util.tcp_conns \o host_util.udp_conns,
                         LAMBDA c : NetContains(net, c.dst_ip)) IN
    IF hit = <<>> THEN <<>> ELSE << <<Ipv4ToString(hit[1].dst_ip), hit[1].dst_port>> >>

\* ------------------------------------------------------------ environment
\* Hostnames the HAR files can deliver (hostname_from_url keeps a ":port").
H_ab == <<"a", ".", "b">>
H_xab_port == <<"x", ".", "a", ".", "b", ":", "8", "0">>
H_dotdot == <<"a", ".", ".", "b">>
H_loop == <<"1", "2", "7", ".", "0", ".", "0", ".", "1">>
H_pub_port == <<"9", "3", ".", "1", "8", "4", ".", "2", "1", "6", ".", "3", "4", ":", "4", "4", "3">>
H_pub == <<"8", ".", "8", ".", "1", ".", "2">>
H_priv10 == <<"1", "0", ".", "0", ".", "2", ".", "7">>
H_priv172_port == <<"1", "7", "2", ".", "1", "6", ".", "0", ".", "1", ":", "2", "2">>
H_priv192 == <<"1", "9", "2", ".", "1", "6", "8", ".", "1", ".", "1">>
H_bcast == <<"2", "5", "5", ".", "2", "5", "5", ".", "2", "5", "5", ".", "2", "5", "5">>
HostPool == {H_ab, H_xab_port, H_dotdot, H_loop, H_pub_port, H_pub,
             H_priv10, H_priv172_port, H_priv192, H_bcast}

\* Answers of the DNS library (hickory_resolver), which the program does not
\* control: an error, or the records of the answer in order. An NS answer
\* holds at least one record (the library reports "no records found" as an
\* error); the code tests an address answer for emptiness, so an empty one
\* is among the A answers.
LookupError == Err("lookup error")
Ns1 == <<"n", "1", ".", "a", ".", "b", ".">>
Ns2 == <<"n", "2", ".", "a", ".", "b", ".">>
Ip6 == V6(<<"2", "a", ":", ":", "1">>)
NsReplies == {LookupError, Ok(<<Ns1>>), Ok(<<Ns1, Ns2>>)}
AReplies == {LookupError, Ok(<<>>), Ok(<<V4(<<198, 51, 100, 1>>), V4(<<198, 51, 100, 2>>)>>),
             Ok(<<Ip6>>)}
HostReplies == {LookupError, Ok(<<V4(<<8, 8, 1, 2>>), V4(<<8, 8, 3, 4>>)>>),
                Ok(<<V4(<<10, 0, 2, 7>>)>>), Ok(<<Ip6>>)}

\* /proc/net/tcp and /proc/net/udp as the kernel prints them: a header line,
\* then one line per socket, "  sl: local remote st ..." with each address
\* as %08X:%04X of the address in host (little-endian) byte order.
Hex2(n) == << HexDigits[(n \div 16) + 1], HexDigits[(n % 16) + 1] >>
ProcAddr(o, port) ==
    Hex2(o[4]) \o Hex2(o[3]) \o Hex2(o[2]) \o Hex2(o[1]) \o <<":">>
    \o Hex2(port \div 256) \o Hex2(port % 256)
ProcLine(local, remote) ==
    <<" ", " ", " ", "0", ":", " ">> \o local \o <<" ">> \o remote \o <<" ", "0", "1">>
ProcHeader == <<" ", " ", "s", "l", " ", " ", "l", "o", "c", "a", "l">>
LineA == ProcLine(ProcAddr(<<93, 184, 5, 5>>, 58812), ProcAddr(<<10, 0, 2, 7>>, 443))
LineB == ProcLine(ProcAddr(<<192, 168, 1, 195>>, 40000), ProcAddr(<<8, 8, 200, 1>>, 53))
LineShort == <<" ", " ", " ", "1", ":", " ">> \o ProcAddr(<<127, 0, 0, 1>>, 631)
LineBadHex == ProcLine(ProcAddr(<<127, 0, 0, 1>>, 631), <<"0", "1", "0", "x", "0", "0", "7", "F", ":", "0", "0", "5", "0">>)
\* dns.rs line 29: whether Resolver::builder_tokio() read the system's
\* resolver configuration.
ResolverBuilds == BOOLEAN
ReadError == Err("read error")
ProcFiles == {ReadError, Ok(<<ProcHeader>>), Ok(<<ProcHeader, LineA>>),
              Ok(<<ProcHeader, LineB>>), Ok(<<ProcHeader, LineShort>>),
              Ok(<<ProcHeader, LineA, LineBadHex>>)}

\* Hostname strings for domain_from_host in SpecDomain.
DomainAlphabet == {"a", "b", "."}
DomainInputs == UNION {[1..n -> DomainAlphabet] : n \in 0..MaxLen}

\* ------------------------------------------------------------------ state
VARIABLES
    hosts,          \* gen_wg_routes: the HashSet parse_hars_from_cmdline returned
    todo,           \* hostnames the map of lines 28-45 has not reached yet
    cur,            \* Option: the hostname whose closure is blocked in a DNS query
    step,           \* which query it is blocked in
    ns_names,       \* nameservers_from_host: the NS hostnames being looked up
    nameservers,    \* resolve_host_multiple: nameserver_addrs of the resolver
    hosts_and_ips,  \* gen_wg_routes: hostname -> Result
    ok_hosts,       \* gen_wg_routes: hostname -> set of IP strings
    fail_hosts,     \* gen_wg_routes: hostname -> error string
    host_util,      \* Option: the Host built from /proc/net
    out,            \* Option: the string gen_wg_routes returned (the route line)
    pc,             \* position in gen_wg_routes
    queried,        \* history: <<hostname, kind>> of every DNS query issued
    replied,        \* history: <<hostname, kind>> of every DNS query answered
    lastNs,         \* history: the latest nameservers_from_host call
    snapshotReads,  \* history: calls of Host::from_proc_net_tcp
    dh,             \* SpecDomain: the argument of domain_from_host
    dres            \* SpecDomain: Option, its result

runVars == <<hosts, todo, cur, step, ns_names, nameservers, hosts_and_ips, ok_hosts,
             fail_hosts, host_util, out, pc, queried, replied, lastNs, snapshotReads>>
vars == <<runVars, dh, dres>>

NoCall == [host |-> <<>>, ns |-> <<>>, a |-> <<>>, result |-> <<>>]
EmptyMap == [k \in {} |-> {}]

RunInit(hs) ==
    /\ hosts = hs
    /\ todo = hs
    /\ cur = <<>>
    /\ step = "idle"
    /\ ns_names = <<>>
    /\ nameservers = {}
    /\ hosts_and_ips = EmptyMap
    /\ ok_hosts = EmptyMap
    /\ fail_hosts = EmptyMap
    /\ host_util = <<>>
    /\ out = <<>>
    /\ pc = "resolve"
    /\ queried = {}
    /\ replied = {}
    /\ lastNs = NoCall
    /\ snapshotReads = 0

Init ==
    /\ \E hs \in SUBSET HostPool : Cardinality(hs) <= MaxHosts /\ RunInit(hs)
    /\ dh = <<>>
    /\ dres = <<>>

\* HashMap insert
Put(m, k, v) == [x \in DOMAIN m \cup {k} |-> IF x = k THEN v ELSE m[x]]

\* A mutation of host_entry_key: the map is keyed by the port-stripped name.
host_entry_key_stripped(host) == discard_port(host)

\* main.rs line 30: the key of the pair the closure returns.
host_entry_key(host) == host

\* A mutation of literal_result: private addresses are let through.
literal_result_noprivate(ip, host) ==
    IF is_loopback(ip) \/ is_broadcast(ip) THEN Ok({}) ELSE Ok({host})

\* main.rs lines 34-38: the result for a hostname that is an IPv4 literal.
literal_result(ip, host) ==
    IF is_loopback(ip) \/ is_broadcast(ip) \/ is_private(ip) THEN Ok({}) ELSE Ok({host})

\* A mutation of ns_ips_fold: a failed or empty answer is skipped.
RECURSIVE ns_ips_fold_besteffort(_, _)
ns_ips_fold_besteffort(responses, acc) ==
    IF responses = <<>> THEN Ok(acc)
    ELSE LET x == Head(responses) IN
         IF ~x.ok \/ x.val = <<>> THEN ns_ips_fold_besteffort(Tail(responses), acc)
         ELSE ns_ips_fold_besteffort(Tail(responses), acc \cup {IpToString(x.val[1])})

\* dns.rs lines 45-51: the try_fold of nameservers_from_host.
RECURSIVE ns_ips_fold(_, _)
ns_ips_fold(responses, acc) ==
    IF responses = <<>> THEN Ok(acc)
    ELSE LET x == Head(responses) IN
         IF ~x.ok THEN Err("could not lookup IPs of nameserver hostname")
         ELSE IF x.val = <<>> THEN Err("empty IP list for nameserver hostname")
         ELSE ns_ips_fold(Tail(responses), acc \cup {IpToString(x.val[1])})

\* dns.rs lines 57-65: the fixed public resolvers and the parsed nameserver
\* addresses (a Vec whose order follows the HashSet; only membership is used).
global_dns == {<<8, 8, 8, 8>>, <<1, 1, 1, 1>>, <<9, 9, 9, 9>>}
nameserver_addrs(nameserver_ips) ==
    IF \E x \in nameserver_ips : ParseIpv4(x) = <<>>
    THEN Err("could not parse as IPv4 addr")
    ELSE Ok(global_dns \cup {ParseIpv4(x)[1] : x \in nameserver_ips})

\* The closure of lines 28-45 returns (key, res) for hostname h.
Record(h, res) ==
    /\ hosts_and_ips' = Put(hosts_and_ips, host_entry_key(h), res)
    /\ cur' = <<>>
    /\ step' = "idle"
    /\ ns_names' = <<>>

\* dns.rs lines 45-53 and main.rs lines 40-41, dns.rs lines 55-83: the
\* nameserver answers are folded; on Ok, resolve_host_multiple builds its
\* resolver and issues the lookup of the hostname.
AfterNameservers(h, nsreply, responses) ==
    LET ns_ips == ns_ips_fold(responses, {})
        addrs == nameserver_addrs(ns_ips.val) IN
    /\ lastNs' = [host |-> <<h>>, ns |-> <<nsreply>>, a |-> responses, result |-> <<ns_ips>>]
    /\ IF ~ns_ips.ok THEN
           Record(h, Err(ns_ips.err)) /\ UNCHANGED <<nameservers, queried>>
       ELSE IF ~addrs.ok THEN
           Record(h, Err(addrs.err)) /\ UNCHANGED <<nameservers, queried>>
       ELSE /\ nameservers' = addrs.val
            /\ queried' = queried \cup {<<h, "host">>}
            /\ cur' = <<h>>
            /\ step' = "host_lookup"
            /\ ns_names' = <<>>
            /\ UNCHANGED hosts_and_ips

\* main.rs line 28: when the map can hand hostname h to the closure. The
\* iterator is sequential (into_iter().map), so the previous closure, which
\* blocks in block_on, has returned.
CanStart(h) ==
    /\ pc = "resolve"
    /\ cur = <<>>
    /\ h \in todo

\* main.rs lines 28-42, dns.rs lines 28-32: the map reaches hostname h. For a
\* name that is no IPv4 literal nameservers_from_host first builds the system
\* resolver and unwraps it, then extracts the domain and issues the NS lookup.
\* (The tokio runtimes of dns.rs lines 33 and 84 are taken to be created.)
StartHost(h) ==
    /\ CanStart(h)
    /\ todo' = todo \ {h}
    /\ LET host == discard_port(h)
           ip == hostname_is_ip(host)
           domain_name == domain_from_host(host) IN
       IF ip # <<>> THEN
           Record(h, literal_result(ip[1], host)) /\ UNCHANGED <<queried, lastNs, pc>>
       ELSE \E built \in ResolverBuilds :
           IF ~built THEN
               /\ pc' = "panic"
               /\ cur' = <<h>>
               /\ lastNs' = [NoCall EXCEPT !.host = <<h>>]
               /\ UNCHANGED <<step, ns_names, hosts_and_ips, queried>>
           ELSE IF ~domain_name.ok THEN
               /\ Record(h, Err(domain_name.err))
               /\ lastNs' = [NoCall EXCEPT !.host = <<h>>,
                                          !.result = <<Err(domain_name.err)>>]
               /\ UNCHANGED <<queried, pc>>
           ELSE /\ cur' = <<h>>
                /\ step' = "ns_lookup"
                /\ queried' = queried \cup {<<h, "ns">>}
                /\ lastNs' = [NoCall EXCEPT !.host = <<h>>]
                /\ UNCHANGED <<hosts_and_ips, ns_names, pc>>
    /\ UNCHANGED <<hosts, nameservers, ok_hosts, fail_hosts, host_util, out, replied,
                   snapshotReads, dh, dres>>

\* dns.rs lines 34-43: the NS lookup returns; unwrap panics on an error,
\* otherwise the A lookups of the NS hostnames are issued together.
NsReply(r) ==
    /\ pc = "resolve"
    /\ step = "ns_lookup"
    /\ replied' = replied \cup {<<cur[1], "ns">>}
    /\ IF ~r.ok THEN
           /\ pc' = "panic"
           /\ lastNs' = [lastNs EXCEPT !.ns = <<r>>]
           /\ UNCHANGED <<cur, step, ns_names, nameservers, hosts_and_ips, queried>>
       ELSE /\ ns_names' = [i \in 1..Len(r.val) |-> TrimEndMatches(r.val[i], ".")]
            /\ step' = "a_lookup"
            /\ queried' = queried \cup {<<cur[1], "a">>}
            /\ lastNs' = [lastNs EXCEPT !.ns = <<r>>]
            /\ UNCHANGED <<cur, nameservers, hosts_and_ips, pc>>
    /\ UNCHANGED <<hosts, todo, ok_hosts, fail_hosts, host_util, out, snapshotReads, dh, dres>>

\* dns.rs lines 41-53: join_all returns the answers of all A lookups.
AReply(responses) ==
    /\ pc = "resolve"
    /\ step = "a_lookup"
    /\ replied' = replied \cup {<<cur[1], "a">>}
    /\ AfterNameservers(cur[1], lastNs.ns[1], responses)
    /\ UNCHANGED <<hosts, todo, ok_hosts, fail_hosts, host_util, out, pc, snapshotReads,
                   dh, dres>>

\* dns.rs lines 84-90: the lookup of the hostname returns.
HostReply(r) ==
    /\ pc = "resolve"
    /\ step = "host_lookup"
    /\ replied' = replied \cup {<<cur[1], "host">>}
    /\ Record(cur[1], IF r.ok THEN Ok({IpToString(r.val[i]) : i \in 1..Len(r.val)})
                      ELSE Ok({}))
    /\ UNCHANGED <<hosts, todo, nameservers, ok_hosts, fail_hosts, host_util, out, pc,
                   queried, lastNs, snapshotReads, dh, dres>>

\* main.rs lines 45-72: the map is exhausted; the results are split.
Partition ==
    /\ pc = "resolve"
    /\ todo = {}
    /\ cur = <<>>
    /\ ok_hosts' = [h \in {k \in DOMAIN hosts_and_ips : hosts_and_ips[k].ok}
                      |-> hosts_and_ips[h].val]
    /\ fail_hosts' = [h \in {k \in DOMAIN hosts_and_ips : ~hosts_and_ips[k].ok}
                      |-> hosts_and_ips[h].err]
    /\ pc' = "snapshot"
    /\ UNCHANGED <<hosts, todo, cur, step, ns_names, nameservers, hosts_and_ips, host_util,
                   out, queried, replied, lastNs, snapshotReads, dh, dres>>

\* A mutation of SnapshotPoint: the tables are read at the start of the run.
SnapshotPointAtStart == pc = "resolve" /\ cur = <<>> /\ hosts_and_ips = EmptyMap

\* main.rs line 74: where gen_wg_routes calls Host::from_proc_net_tcp.
SnapshotPoint == pc = "snapshot"

\* main.rs line 74, host.rs lines 17-41.
Snapshot(tcp_file, udp_file) ==
    /\ SnapshotPoint
    /\ snapshotReads' = snapshotReads + 1
    /\ LET h == from_proc_net_tcp(tcp_file, udp_file) IN
       IF h.ok THEN host_util' = <<h.val>> /\ pc' = "filter"
       ELSE pc' = "abort" /\ UNCHANGED host_util
    /\ UNCHANGED <<hosts, todo, cur, step, ns_names, nameservers, hosts_and_ips, ok_hosts,
                   fail_hosts, out, queried, replied, lastNs, dh, dres>>

Orderings(S) == {f \in [1..Cardinality(S) -> S] : \A i, j \in 1..Cardinality(S) : f[i] = f[j] => i = j}
RoutePrefix == <<"A", "l", "l", "o", "w", "e", "d", "I", "P", "s", " ", "=", " ">>

\* main.rs lines 76-94: networks of all resolved IPs, conflict filter, join in
\* the HashSet's iteration order. contains_dst unwraps the parse of the net.
Emit ==
    /\ pc = "filter"
    /\ LET ips == UNION {ok_hosts[h] : h \in DOMAIN ok_hosts}
           nets == {net_from_ip(ip) : ip \in ips} IN
       IF \E n \in nets : ParseIpv4Network(n) = <<>> THEN
           pc' = "panic" /\ UNCHANGED out
       ELSE LET kept == {n \in nets : contains_dst(host_util[1], n) = <<>>} IN
            /\ \E order \in Orderings(kept) :
                   out' = << RoutePrefix \o Join(order, <<",", " ">>) >>
            /\ pc' = "done"
    /\ UNCHANGED <<hosts, todo, cur, step, ns_names, nameservers, hosts_and_ips, ok_hosts,
                   fail_hosts, host_util, queried, replied, lastNs, snapshotReads, dh, dres>>

Next ==
    \/ \E h \in HostPool : StartHost(h)
    \/ \E r \in NsReplies : NsReply(r)
    \/ \E n \in 1..2 : \E responses \in [1..n -> AReplies] :
           n = Len(ns_names) /\ AReply(responses)
    \/ \E r \in HostReplies : HostReply(r)
    \/ Partition
    \/ \E tcp_file, udp_file \in ProcFiles : Snapshot(tcp_file, udp_file)
    \/ Emit

Spec == Init /\ [][Next]_vars

\* ---------------------------------------------- domain_from_host on its own
DomainInit ==
    /\ RunInit({})
    /\ dh \in DomainInputs
    /\ dres = <<>>

DomainApply ==
    /\ dres = <<>>
    /\ dres' = << domain_from_host(dh) >>
    /\ UNCHANGED <<runVars, dh>>

SpecDomain == DomainInit /\ [][DomainApply]_vars

\* ------------------------------- the aggregation of main.rs lines 76-94 alone
\* The run has resolved hostname a.b through one nameserver to ips, split the
\* results and read the connection tables without error; Emit is next.
NetAddrs == {<<a, b, c, d>> : a \in {8, 10, 255}, b \in {0, 255},
                              c \in {0, 200}, d \in {7, 100}}
NetSnapshots == {from_proc_net_tcp(Ok(<<ProcHeader>>), Ok(<<ProcHeader>>)).val,
                 from_proc_net_tcp(Ok(<<ProcHeader>>), Ok(<<ProcHeader, LineA>>)).val}
NetInit ==
    /\ \E answer \in [1..MaxIps -> NetAddrs] : \E snap \in NetSnapshots :
         LET addrs == Range(answer) IN
           /\ hosts_and_ips = Put(EmptyMap, H_ab, Ok({Ipv4ToString(o) : o \in addrs}))
           /\ ok_hosts = Put(EmptyMap, H_ab, {Ipv4ToString(o) : o \in addrs})
           /\ host_util = <<snap>>
    /\ hosts = {H_ab}
    /\ todo = {}
    /\ cur = <<>>
    /\ step = "idle"
    /\ ns_names = <<>>
    /\ nameservers = global_dns \cup {<<198, 51, 100, 1>>}
    /\ fail_hosts = EmptyMap
    /\ out = <<>>
    /\ pc = "filter"
    /\ queried = {<<H_ab, "ns">>, <<H_ab, "a">>, <<H_ab, "host">>}
    /\ replied = queried
    /\ lastNs = [host |-> <<H_ab>>, ns |-> <<Ok(<<Ns1>>)>>,
                 a |-> <<Ok(<<V4(<<198, 51, 100, 1>>)>>)>>,
                 result |-> <<Ok({Ipv4ToString(<<198, 51, 100, 1>>)})>>]
    /\ snapshotReads = 1
    /\ dh = <<>>
    /\ dres = <<>>

SpecNet == NetInit /\ [][Emit]_vars

\* ================================================================ claims
\* Helpers of the properties below (not part of the program).
DotPositions(h) == {i \in 1..Len(h) : h[i] = "."}
HasEmptyLabel(h) ==
    \/ h = <<>>
    \/ h[1] = "."
    \/ h[Len(h)] = "."
    \/ \E i \in 1..(Len(h) - 1) : h[i] = "." /\ h[i + 1] = "."
\* The position after which the last two labels of h start.
LastTwoStart(h) ==
    LET last == CHOOSE i \in DotPositions(h) : \A j \in DotPositions(h) : j <= i
        before == {i \in DotPositions(h) : i < last} IN
    IF before = {} THEN 0
    ELSE CHOOSE i \in before : \A j \in before : j <= i
\* The entries of a rendered route line "AllowedIPs = n1, n2, ...".
RouteEntries(line) ==
    LET body == Skip(line, Len(RoutePrefix)) IN
    IF body = <<>> THEN <<>>
    ELSE LET parts == Split(body, ",") IN [i \in 1..Len(parts) |-> TrimStart(parts[i])]
ResolvedIps == UNION {ok_hosts[h] : h \in DOMAIN ok_hosts}
Conns == IF host_util = <<>> THEN {}
         ELSE Range(host_util[1].tcp_conns) \cup Range(host_util[1].udp_conns)
\* The text "A.B.0.0/16" for octets A, B.
Slash16Text(a, b) ==
    DecString(a) \o <<".">> \o DecString(b) \o <<".", "0", ".", "0", "/", "1", "6">>
SameSlash16(o1, o2) == o1[1] = o2[1] /\ o1[2] = o2[2]
Partitioned == pc \in {"snapshot", "filter", "done", "abort"}
IsLiteral(h) == ParseIpv4(discard_port(h)) # <<>>
NeverTunnelled(o) ==
    \/ o[1] = 127
    \/ o = <<255, 255, 255, 255>>
    \/ o[1] = 10
    \/ o[1] = 172 /\ o[2] >= 16 /\ o[2] <= 31
    \/ o[1] = 192 /\ o[2] = 168
NsLookupFailed == lastNs.ns # <<>> /\ ~lastNs.ns[1].ok
ALookupFailed == \E i \in 1..Len(lastNs.a) : ~lastNs.a[i].ok
ALookupUnusable == \E i \in 1..Len(lastNs.a) : ~lastNs.a[i].ok \/ lastNs.a[i].val = <<>>

\* C1 (as claimed): when the NS lookup of a hostname, or the A lookup of one
\* of its nameserver hostnames, returns an error, the run goes on: it does
\* not panic, and once the closure has returned the hostname is recorded
\* with an error and, after the split, is a key of the failure mapping.
IsolationOnNsFailure ==
    (lastNs.host # <<>> /\ (NsLookupFailed \/ ALookupFailed)) =>
        LET h == lastNs.host[1] IN
        /\ pc # "panic"
        /\ cur # <<h>> => (h \in DOMAIN hosts_and_ips /\ ~hosts_and_ips[h].ok)
        /\ Partitioned => h \in DOMAIN fail_hosts

\* C2: in the returned route line no network contains the destination of a
\* TCP or UDP connection of the snapshot, and the network of every resolved
\* IP that shares its first two octets with no destination is listed.
RouteSafety ==
    pc = "done" =>
        LET entries == Range(RouteEntries(out[1])) IN
        /\ \A e \in entries : \A c \in Conns :
               /\ ParseIpv4Network(e) # <<>>
               /\ ~SameSlash16(ParseIpv4Network(e)[1].addr, c.dst_ip)
        /\ \A ip \in ResolvedIps :
               (\A c \in Conns : ~SameSlash16(ParseIpv4(ip)[1], c.dst_ip))
                   => Slash16Text(ParseIpv4(ip)[1][1], ParseIpv4(ip)[1][2]) \in entries
RouteSafetyWitness ==
    /\ pc = "done"
    /\ RouteEntries(out[1]) # <<>>
    /\ host_util[1].tcp_conns = <<>>
    /\ \E ip \in ResolvedIps : \E c \in Range(host_util[1].udp_conns) :
           SameSlash16(ParseIpv4(ip)[1], c.dst_ip)

\* C3: once the results are split, the keys of the success mapping and of the
\* failure mapping are disjoint, together they are exactly the input
\* hostnames (the original strings, port included), and each mapping holds
\* what the hostname's closure returned.
PartitionByHostname ==
    Partitioned =>
        /\ DOMAIN ok_hosts \cap DOMAIN fail_hosts = {}
        /\ DOMAIN ok_hosts \cup DOMAIN fail_hosts = hosts
        /\ \A h \in hosts : h \in DOMAIN hosts_and_ips
        /\ \A h \in DOMAIN ok_hosts : hosts_and_ips[h].ok
        /\ \A h \in DOMAIN fail_hosts : ~hosts_and_ips[h].ok
PartitionWitness ==
    /\ Partitioned
    /\ H_xab_port \in DOMAIN ok_hosts
    /\ H_dotdot \in DOMAIN fail_hosts

\* C5: a hostname that is an IPv4 literal once its ":port" is stripped causes
\* no DNS query; its result is Ok, the empty set for a loopback, broadcast
\* or private address and otherwise the singleton of the address text
\* without the port; after the split it is a key of the success mapping.
LiteralIpv4NoDns ==
    \A h \in hosts : IsLiteral(h) =>
        /\ \A q \in queried : q[1] # h
        /\ cur # <<h>>
        /\ h \in DOMAIN hosts_and_ips =>
               /\ hosts_and_ips[h].ok
               /\ hosts_and_ips[h].val =
                      IF NeverTunnelled(ParseIpv4(discard_port(h))[1]) THEN {}
                      ELSE {Ipv4ToString(ParseIpv4(discard_port(h))[1])}
        /\ Partitioned => h \in DOMAIN ok_hosts
LiteralIpv4Witness ==
    /\ Partitioned
    /\ H_pub_port \in DOMAIN ok_hosts
    /\ ok_hosts[H_pub_port] # {}
    /\ H_priv172_port \in DOMAIN ok_hosts
    /\ ok_hosts[H_priv172_port] = {}

\* C6 (as claimed): every address the Host Resolver returned for a hostname
\* is the text of an IPv4 address, and every entry of a rendered route line
\* is A.B.0.0/16.
Ipv4OnlyResults ==
    /\ \A h \in DOMAIN hosts_and_ips : \A ip \in hosts_and_ips[h].val : ParseIpv4(ip) # <<>>
    /\ out # <<>> => \A e \in Range(RouteEntries(out[1])) :
           \E a, b \in 0..255 : e = Slash16Text(a, b)

\* C7: domain_from_host(h) is an error exactly when h has an empty label or
\* no '.', and otherwise is h from its second-to-last '.' on (all of h when
\* it has a single '.').
DomainExtraction ==
    dres # <<>> =>
        IF HasEmptyLabel(dh) \/ DotPositions(dh) = {} THEN ~dres[1].ok
        ELSE /\ dres[1].ok
             /\ dres[1].val = SubSeq(dh, LastTwoStart(dh) + 1, Len(dh))
DomainExtractionWitness ==
    /\ dres # <<>>
    /\ dres[1].ok
    /\ Cardinality(DotPositions(dh)) = 2
    /\ Len(dres[1].val) < Len(dh)

\* C8: net_from_ip of the text of A.B.C.D is "A.B.0.0/16", and no network is
\* listed twice in the route line, so resolved IPs with the same first two
\* octets share one entry.
NetworkAggregation ==
    /\ \A h \in DOMAIN hosts_and_ips : \A ip \in hosts_and_ips[h].val :
           ParseIpv4(ip) # <<>> =>
               net_from_ip(ip) = Slash16Text(ParseIpv4(ip)[1][1], ParseIpv4(ip)[1][2])
    /\ out # <<>> =>
           LET e == RouteEntries(out[1]) IN
           /\ \A i, j \in 1..Len(e) : e[i] = e[j] => i = j
           /\ \A ip \in ResolvedIps :
                  Cardinality({i \in 1..Len(e) :
                      e[i] = Slash16Text(ParseIpv4(ip)[1][1], ParseIpv4(ip)[1][2])}) <= 1
NetworkAggregationWitness ==
    /\ pc = "done"
    /\ \E ip1, ip2 \in ResolvedIps :
           /\ ip1 # ip2
           /\ SameSlash16(ParseIpv4(ip1)[1], ParseIpv4(ip2)[1])
           /\ net_from_ip(ip1) \in Range(RouteEntries(out[1]))
    /\ Len(RouteEntries(out[1])) = 1

\* C9: an A lookup of a nameserver hostname is issued only after the NS
\* lookup of that hostname's domain was answered; when nameservers_from_host
\* has returned after its A lookups, the result is an error if any of them
\* failed or was empty, in which case the hostname is recorded as failed
\* and its own lookup is never issued, and otherwise the result is the set
\* of the first address of each answer, one answer per NS hostname.
FailFastNameservers ==
    /\ \A q \in queried : q[2] = "a" => <<q[1], "ns">> \in replied
    /\ \A q \in queried : q[2] = "host" =>
           /\ <<q[1], "ns">> \in replied
           /\ <<q[1], "a">> \in queried => <<q[1], "a">> \in replied
    /\ (lastNs.ns # <<>> /\ lastNs.result # <<>>) =>
           LET h == lastNs.host[1]
               res == lastNs.result[1] IN
           /\ Len(lastNs.a) = Len(lastNs.ns[1].val)
           /\ IF ALookupUnusable
              THEN /\ ~res.ok
                   /\ <<h, "host">> \notin queried
                   /\ h \in DOMAIN hosts_and_ips
                   /\ ~hosts_and_ips[h].ok
              ELSE /\ res.ok
                   /\ res.val = {IpToString(lastNs.a[i].val[1]) : i \in 1..Len(lastNs.a)}
FailFastWitness ==
    /\ lastNs.result # <<>>
    /\ Len(lastNs.a) = 2
    /\ lastNs.a[1].ok
    /\ lastNs.a[1].val # <<>>
    /\ ~lastNs.a[2].ok
    /\ ~lastNs.result[1].ok

\* C10 (as claimed): the connection tables are read at most once, the read
\* precedes every DNS query, a route line is filtered against that snapshot,
\* and a failed read ends the run without a route line.
SnapshotAtStart ==
    /\ snapshotReads <= 1
    /\ queried # {} => snapshotReads = 1
    /\ out # <<>> => (snapshotReads = 1 /\ host_util # <<>>)
    /\ pc = "abort" => (out = <<>> /\ host_util = <<>>)

\* C10 (amended): the connection tables are read at most once, the read
\* follows the resolution of every hostname (every DNS query issued has been
\* answered and no hostname is left), a route line is filtered against that
\* snapshot, and a failed read ends the run without a route line.
SnapshotAfterResolution ==
    /\ snapshotReads <= 1
    /\ snapshotReads = 1 =>
           /\ todo = {}
           /\ cur = <<>>
           /\ queried \subseteq replied
           /\ DOMAIN hosts_and_ips = hosts
    /\ pc \in {"filter", "done"} => (snapshotReads = 1 /\ host_util # <<>>)
    /\ out # <<>> => (snapshotReads = 1 /\ host_util # <<>>)
    /\ pc = "abort" => (snapshotReads = 1 /\ out = <<>> /\ host_util = <<>>)
SnapshotWitness ==
    /\ pc = "done"
    /\ snapshotReads = 1
    /\ queried # {}
    /\ Conns # {}

\* C4 (as claimed): a hostname that has not been started never has to wait
\* for the DNS queries of another hostname: while the run is still
\* resolving, its resolution can start whether or not another hostname is
\* blocked in a query.
NonStalling ==
    \A h \in todo : pc = "resolve" => CanStart(h)

====
